---- MODULE Spec2Model ----
(***************************************************************************)
(* Model of the chat-history reporting pipeline:                           *)
(*   core/utils/chat_history_queue.py   (ChatHistoryQueue, one worker;     *)
(*                                       the module-level accessor)        *)
(*   core/utils/chat_history_service.py (ChatHistoryService, HTTP client)  *)
(*                                                                         *)
(* Threads are interleaved without timing.  A timeout (queue.get(timeout), *)
(* Thread.join(timeout)) is a step that may be taken whenever the thread   *)
(* is waiting: the interpreter promises no upper bound on the delay of a   *)
(* thread between two statements.                                          *)
(***************************************************************************)
EXTENDS Integers, Sequences, FiniteSets, TLC

VARIABLES
    chat_history_config, \* config.get("chat-history-server", {})
    enabled,             \* ChatHistoryService.enabled
    base_url,            \* ChatHistoryService.base_url (characters)
    secret,              \* ChatHistoryService.secret
    report_queue,        \* ChatHistoryQueue.report_queue: FIFO of items
    unfinished_tasks,    \* queue.Queue.unfinished_tasks of report_queue
    stop_event,          \* ChatHistoryQueue.stop_event
    wpc,                 \* position of the worker thread in _worker
    item,                \* the item the worker holds (local of _worker)
    calls,               \* requests.post calls issued so far, in order
    spc,                 \* position of the thread calling stop()
    stopReturned,        \* some stop() call has returned
    uncaught,            \* threads an exception has propagated out of
    \* history of the run (not program state)
    accepted,            \* events put on report_queue, in order of the put
    pulled,              \* ids of the events the worker got, in order
    outcome,             \* per accepted event: how its processing ended
    ncalls,              \* number of enqueue_* calls made
    sawEligible,         \* some enqueue_* call had enabled config and device_id
    postStop,            \* ids enqueued by a call begun after a stop() returned
    producerOf,          \* per accepted event: the thread that enqueued it
    afterStop,           \* number of events whose processing began with
                         \* the stop flag set
    \* the module-level accessor and the threads that call it
    chat_history_queue,  \* the global _chat_history_queue: 0 is None, else
                         \* the number of the instance in `instances`
    instances,           \* the ChatHistoryQueue objects constructed by the
                         \* accessor, in order of construction
    threads,             \* per calling thread: its position and its locals
    history,             \* what the accessor's callers did and got
    \* one call of ChatHistoryService._make_request_sync taken by itself
    request              \* its arguments, the remote answer and its result

\* the state owned by the module-level functions
accessorVars == <<chat_history_queue, instances, threads, history>>

\* the state of one ChatHistoryQueue and of its service
queueVars == <<chat_history_config, enabled, base_url, secret, report_queue,
               unfinished_tasks, stop_event, wpc, item, calls, spc,
               stopReturned, uncaught, accepted, pulled, outcome, ncalls,
               sawEligible, postStop, producerOf, afterStop>>

vars == <<queueVars, accessorVars, request>>

(***************************************************************************)
(* Bounds of the model                                                     *)
(***************************************************************************)
MaxEnqueue == 2

\* calls of the module-level functions made in one run
MaxOps == 3

(***************************************************************************)
(* Values                                                                  *)
(***************************************************************************)
\* Python's None, where a string is expected
NoneVal == "None"

\* the None item: what the worker holds when it holds no event, and the
\* value that ends its loop when got from the queue
NoItem == [id |-> 0, device_id |-> NoneVal, role |-> NoneVal, text |-> NoneVal,
           image_base64 |-> NoneVal]

\* a transport-level failure of requests.post (it raises), as a response value
TransportError == -1

\* the response of a call that has not returned yet
InFlight == 0

\* what the remote end may answer to one POST
Responses == {201, 404, TransportError}

\* configurations handed to the constructor (strings as sequences of
\* characters); a key may be missing
Configs ==
    { <<>>,
      [url |-> <<"h">>],
      [secret |-> <<"s">>],
      [url |-> <<>>, secret |-> <<"s">>],
      [url |-> <<"h">>, secret |-> <<>>],
      [url |-> <<"h", "/", "/">>, secret |-> <<"s">>] }

\* arguments of enqueue_message calls: <<device_id, role, text, image_base64>>
MessageArgs ==
    { <<"d1", "user", "hi", NoneVal>>,
      <<"d1", "user", "", "">>,
      <<"d2", "user", "hi", "img">>,
      <<"d1", "assistant", "yo", "img">>,
      <<"d1", "chat_end", "bye", "img">>,
      <<"d1", "system", "hi", NoneVal>>,
      <<"", "user", "hi", "img">> }

\* the enqueue_message calls of the runs checked for liveness
LiveMessageArgs ==
    { <<"d2", "user", "hi", "img">>,
      <<"d1", "system", "hi", NoneVal>>,
      <<"", "user", "hi", "img">> }

\* arguments of enqueue_chat_end calls: device_id
ChatEndArgs == {"d1", ""}

\* the literal "POST" of lines 81 and 108, as characters
PostLiteral == <<"P", "O", "S", "T">>

\* method arguments of _make_request_sync (strings as sequences of
\* characters)
Methods ==
    { PostLiteral,
      <<"p", "o", "s", "t">>,
      <<"P", "o", "s", "t">>,
      <<"G", "E", "T">>,
      <<"P", "U", "T">>,
      <<"p", "o", "s", "t", "s">>,
      <<>> }

\* what the remote end may answer to the POST of one _make_request_sync
\* call: a status code, or the call raises
Statuses == {200, 201, 202, 204, 301, 400, 404, 500, TransportError}

\* no _make_request_sync call is looked at by itself
NoRequest == [pc |-> "none", method |-> <<>>, resp |-> InFlight,
              posted |-> FALSE, result |-> FALSE, raised |-> FALSE]

\* the threads that call the enqueue methods of one queue
Producers == {"p1", "p2"}

\* the threads that call the module-level functions
Threads == {"t1", "t2"}

\* get_chat_history_queue called without a configuration (config=None)
NoConfig == [absent |-> TRUE]

\* configurations handed to get_chat_history_queue
AccessorConfigs ==
    { [url |-> <<"h">>, secret |-> <<"s">>],
      [url |-> <<"g", "/">>, secret |-> <<"t">>],
      <<>> }

\* arguments of the module-level enqueue_chat_message
HelperMessageArgs ==
    { <<"d1", "user", "hi", NoneVal>>,
      <<"", "user", "hi", NoneVal>> }

\* a thread that is in none of the module-level functions
IdleThread == [pc |-> "idle", op |-> NoneVal, config |-> NoConfig,
               args |-> <<>>, start |-> 0, queue |-> 0]

(***************************************************************************)
(* ChatHistoryService.__init__                                             *)
(***************************************************************************)
\* bool(d.get(k)): the key is there and its value is not empty
Truthy(d, k) == k \in DOMAIN d /\ d[k] # <<>>

ServiceEnabled(cfg) == Truthy(cfg, "url") /\ Truthy(cfg, "secret")

RECURSIVE Rstrip(_)
\* str.rstrip("/")
Rstrip(s) ==
    IF s # <<>> /\ s[Len(s)] = "/" THEN Rstrip(SubSeq(s, 1, Len(s) - 1)) ELSE s

(***************************************************************************)
(* Construction: ChatHistoryQueue(config) builds the service, the queue    *)
(* and the stop event, and starts the worker thread                        *)
(***************************************************************************)
\* no thread is inside a module-level function, none has been called
AccessorInit ==
    /\ chat_history_queue = 0
    /\ instances = <<>>
    /\ threads = [t \in Threads |-> IdleThread]
    /\ history = [nops |-> 0, configured |-> FALSE, returns |-> {},
                  raised |-> FALSE]

Init ==
    /\ AccessorInit
    /\ request = NoRequest
    /\ chat_history_config \in Configs
    /\ enabled = ServiceEnabled(chat_history_config)
    /\ base_url = IF enabled THEN Rstrip(chat_history_config.url) ELSE <<>>
    /\ secret = IF enabled THEN chat_history_config.secret ELSE <<>>
    /\ report_queue = <<>>
    /\ unfinished_tasks = 0
    /\ stop_event = FALSE
    /\ wpc = "loop"
    /\ item = NoItem
    /\ calls = <<>>
    /\ spc = "idle"
    /\ stopReturned = FALSE
    /\ uncaught = {}
    /\ accepted = <<>>
    /\ pulled = <<>>
    /\ outcome = <<>>
    /\ ncalls = 0
    /\ sawEligible = FALSE
    /\ postStop = {}
    /\ producerOf = <<>>
    /\ afterStop = 0

\* the configuration names a url and a secret, neither of them empty
UrlAndSecretGiven ==
    /\ "url" \in DOMAIN chat_history_config
    /\ "secret" \in DOMAIN chat_history_config
    /\ Len(chat_history_config.url) > 0
    /\ Len(chat_history_config.secret) > 0

(***************************************************************************)
(* Exception handling                                                      *)
(***************************************************************************)
\* mutant: the worker's loop body has no handler of its own
Catches_NoneInWorker == {"put", "report", "request"}

\* the `except Exception` clauses of the two files
Catches == {"put", "item", "worker", "report", "request"}

\* an exception raised inside the try blocks `places` passes all of them
Escapes(places) == places \cap Catches = {}

(***************************************************************************)
(* Producers: enqueue_message, enqueue_chat_end                            *)
(***************************************************************************)
\* queue.Queue(): maxsize 0, the queue is unbounded
maxsize == 0

\* mutant: a queue of one slot
Full_OneSlot(q) == Len(q) >= 1

\* queue.Queue.put blocks while the queue is full
Full(q) == maxsize > 0 /\ Len(q) >= maxsize

\* mutant: the device_id test is missing
Accepts_NoDeviceTest(device_id) == enabled

\* the guard of both enqueue methods: the call goes on to put
Accepts(device_id) == enabled /\ device_id # ""

\* the body of both enqueue methods, `tuple` being what is put.
\* putFails: report_queue.put raises (resource exhaustion)
Enqueue(tuple, putFails) ==
    /\ ncalls < MaxEnqueue
    /\ ncalls' = ncalls + 1
    /\ sawEligible' =
         (sawEligible \/ (UrlAndSecretGiven /\ tuple[1] # ""))
    /\ IF ~Accepts(tuple[1])
       THEN /\ putFails = FALSE
            /\ UNCHANGED <<report_queue, unfinished_tasks, accepted, outcome,
                           postStop, uncaught>>
       ELSE IF putFails
       THEN /\ uncaught' = IF Escapes({"put"}) THEN uncaught \cup {"producer"}
                           ELSE uncaught
            /\ UNCHANGED <<report_queue, unfinished_tasks, accepted, outcome,
                           postStop>>
       ELSE LET it == [id |-> Len(accepted) + 1, device_id |-> tuple[1],
                       role |-> tuple[2], text |-> tuple[3],
                       image_base64 |-> tuple[4]]
            IN /\ ~Full(report_queue)
               /\ report_queue' = Append(report_queue, it)
               /\ unfinished_tasks' = unfinished_tasks + 1
               /\ accepted' = Append(accepted, it)
               /\ outcome' = Append(outcome, "queued")
               /\ postStop' = IF stopReturned THEN postStop \cup {it.id}
                              ELSE postStop
               /\ UNCHANGED uncaught
    /\ UNCHANGED <<accessorVars, request, afterStop,
                   chat_history_config, enabled, base_url, secret, stop_event,
                   wpc, item, calls, spc, stopReturned, pulled>>

\* the enqueue call is made by thread p
EnqueueBy(p, tuple, putFails) ==
    /\ Enqueue(tuple, putFails)
    /\ producerOf' = IF Len(accepted') > Len(accepted)
                     THEN Append(producerOf, p) ELSE producerOf

EnqueueMessage ==
    \E a \in MessageArgs : \E putFails \in BOOLEAN :
        EnqueueBy("p1", a, putFails)

LiveEnqueueMessage ==
    \E a \in LiveMessageArgs : \E putFails \in BOOLEAN :
        EnqueueBy("p1", a, putFails)

EnqueueChatEnd ==
    \E d \in ChatEndArgs : \E putFails \in BOOLEAN :
        EnqueueBy("p1", <<d, "chat_end", "", NoneVal>>, putFails)

\* enqueue_message called by any of several threads
ProducerEnqueueMessage ==
    \E p \in Producers : \E a \in LiveMessageArgs : \E putFails \in BOOLEAN :
        EnqueueBy(p, a, putFails)

\* enqueue_chat_end called by any of several threads
ProducerEnqueueChatEnd ==
    \E p \in Producers : \E putFails \in BOOLEAN :
        EnqueueBy(p, <<"d1", "chat_end", "", NoneVal>>, putFails)

(***************************************************************************)
(* ChatHistoryService: report_message, report_chat_end                     *)
(***************************************************************************)
\* `if x:` on an optional string
NonEmpty(x) == x # NoneVal /\ x # ""

\* _generate_jwt_token: the claims and the key of the signed token
GenerateJwtToken(device_id) ==
    [device_id |-> device_id, exp_in |-> 3600, key |-> secret, alg |-> "HS256"]

Headers(device_id) ==
    [Authorization |-> <<"Bearer", GenerateJwtToken(device_id)>>,
     ContentType |-> "application/json"]

\* the requests.post call of report_message; json is <<>> for None
MessageRequest(id, device_id, role, text, image_base64) ==
    [id |-> id, method |-> "POST",
     url |-> base_url \o <<"/", "devices", "/", device_id, "/", "messages">>,
     headers |-> Headers(device_id),
     json |-> << IF NonEmpty(image_base64)
                 THEN [role |-> role, text |-> text,
                       image_base64 |-> image_base64]
                 ELSE [role |-> role, text |-> text] >>,
     timeout |-> 10, resp |-> InFlight]

\* the requests.post call of report_chat_end: no data
ChatEndRequest(id, device_id) ==
    [id |-> id, method |-> "POST",
     url |-> base_url \o <<"/", "devices", "/", device_id, "/", "chat_end">>,
     headers |-> Headers(device_id),
     json |-> <<>>,
     timeout |-> 10, resp |-> InFlight]

\* the guard of report_message and report_chat_end
ServiceActs(device_id) == enabled /\ device_id # ""

LowerCase == <<"a", "b", "c", "d", "e", "f", "g", "h", "i", "j", "k", "l", "m",
              "n", "o", "p", "q", "r", "s", "t", "u", "v", "w", "x", "y", "z">>

UpperCase == <<"A", "B", "C", "D", "E", "F", "G", "H", "I", "J", "K", "L", "M",
              "N", "O", "P", "Q", "R", "S", "T", "U", "V", "W", "X", "Y", "Z">>

\* str.upper(): each lower-case letter is replaced, the rest is kept
Upper(str) ==
    [k \in DOMAIN str |->
        IF \E n \in DOMAIN LowerCase : LowerCase[n] = str[k]
        THEN UpperCase[CHOOSE n \in DOMAIN LowerCase : LowerCase[n] = str[k]]
        ELSE str[k]]

\* line 34-41: requests.post is called
PostIssued(method) == enabled /\ Upper(method) = PostLiteral

\* mutant: every 2xx status counts as success
MakeRequestSync_Any2xx(method, resp) ==
    IF ~enabled THEN FALSE
    ELSE IF Upper(method) = PostLiteral
         THEN IF resp = TransportError THEN FALSE ELSE resp \in 200..299
         ELSE FALSE

\* _make_request_sync with the remote end answering `resp` to a POST:
\* an exception of requests.post is caught and gives False
MakeRequestSync(method, resp) ==
    IF ~enabled THEN FALSE
    ELSE IF Upper(method) = PostLiteral
         THEN IF resp = TransportError THEN FALSE ELSE resp \in {200, 201}
         ELSE FALSE

\* an exception leaves _make_request_sync: one raised by requests.post
\* that the handler of line 52 does not catch
RequestRaises(method, resp) ==
    PostIssued(method) /\ resp = TransportError /\ Escapes({"request"})

(***************************************************************************)
(* The worker thread: ChatHistoryQueue._worker                             *)
(***************************************************************************)
\* mutant: the image is passed on for assistant messages too
ProcessReport_ImageForAll(it) ==
    IF it.role \in {"user", "assistant"}
    THEN << MessageRequest(it.id, it.device_id, it.role, it.text,
                           it.image_base64) >>
    ELSE IF it.role = "chat_end"
    THEN << ChatEndRequest(it.id, it.device_id) >>
    ELSE <<>>

\* mutant: a role without a branch is reported like a message
ProcessReport_UnknownAsMessage(it) ==
    IF it.role = "user"
    THEN << MessageRequest(it.id, it.device_id, it.role, it.text,
                           it.image_base64) >>
    ELSE IF it.role = "chat_end"
    THEN << ChatEndRequest(it.id, it.device_id) >>
    ELSE << MessageRequest(it.id, it.device_id, it.role, it.text, NoneVal) >>

\* _process_report: which service method is called, and with what.
\* <<>> when no branch matches
ProcessReport(it) ==
    IF it.role = "user"
    THEN << MessageRequest(it.id, it.device_id, it.role, it.text,
                           it.image_base64) >>
    ELSE IF it.role = "assistant"
    THEN << MessageRequest(it.id, it.device_id, it.role, it.text, NoneVal) >>
    ELSE IF it.role = "chat_end"
    THEN << ChatEndRequest(it.id, it.device_id) >>
    ELSE <<>>

\* mutant: the newest item is taken
GetIndex_Newest(q) == Len(q)

\* Queue.get takes the oldest item
GetIndex(q) == 1

RemoveAt(q, i) == SubSeq(q, 1, i - 1) \o SubSeq(q, i + 1, Len(q))

\* mutant: the loop is left when a delivery fails
AfterItem_BreakOnFailure(success, escaped) ==
    IF success /\ ~escaped THEN "loop" ELSE "exited"

\* where the worker goes after one item: `success` is what the delivery
\* call returned (FALSE when none was made), `escaped` that an exception
\* passed every handler of the loop body
AfterItem(success, escaped) == IF escaped THEN "exited" ELSE "loop"

\* mutant: an item whose delivery failed is put back
QueueAfterItem_Retry(q, it, success) == IF success THEN q ELSE Append(q, it)

\* what is left in the queue after the item `it` was processed
QueueAfterItem(q, it, success) == q

\* mutant: the loop never looks at the stop flag (while True)
WorkerLoop_IgnoresStop ==
    /\ wpc = "loop"
    /\ wpc' = "get"
    /\ UNCHANGED <<accessorVars, request, producerOf, afterStop,
                   chat_history_config, enabled, base_url, secret,
                   report_queue, unfinished_tasks, stop_event, item, calls,
                   spc, stopReturned, uncaught, accepted, pulled, outcome, ncalls,
                   sawEligible, postStop>>

\* mutant: after stop() the loop goes on until the queue is empty
WorkerLoop_DrainsQueue ==
    /\ wpc = "loop"
    /\ wpc' = IF stop_event /\ report_queue = <<>> THEN "exited" ELSE "get"
    /\ UNCHANGED <<accessorVars, request, producerOf, afterStop,
                   chat_history_config, enabled, base_url, secret,
                   report_queue, unfinished_tasks, stop_event, item, calls,
                   spc, stopReturned, uncaught, accepted, pulled, outcome, ncalls,
                   sawEligible, postStop>>

\* line 28: while not self.stop_event.is_set()
WorkerLoop ==
    /\ wpc = "loop"
    /\ wpc' = IF stop_event THEN "exited" ELSE "get"
    /\ UNCHANGED <<accessorVars, request, producerOf, afterStop,
                   chat_history_config, enabled, base_url, secret,
                   report_queue, unfinished_tasks, stop_event, item, calls,
                   spc, stopReturned, uncaught, accepted, pulled, outcome, ncalls,
                   sawEligible, postStop>>

\* line 31: report_queue.get(timeout=1) returns an item; None ends the loop
WorkerGet ==
    /\ wpc = "get"
    /\ report_queue # <<>>
    /\ LET i == GetIndex(report_queue)
           it == report_queue[i]
       IN /\ report_queue' = RemoveAt(report_queue, i)
          /\ IF it = NoItem
             THEN /\ wpc' = "exited"
                  /\ UNCHANGED <<item, pulled, outcome>>
             ELSE /\ wpc' = "process"
                  /\ item' = it
                  /\ pulled' = Append(pulled, it.id)
                  /\ outcome' = [outcome EXCEPT ![it.id] = "pulled"]
    /\ UNCHANGED <<accessorVars, request, producerOf, afterStop,
                   chat_history_config, enabled, base_url, secret,
                   unfinished_tasks, stop_event, calls, spc, stopReturned, uncaught,
                   accepted, ncalls, sawEligible, postStop>>

\* line 31, 44: the get times out on an empty queue: queue.Empty, continue
WorkerGetTimeout ==
    /\ wpc = "get"
    /\ report_queue = <<>>
    /\ wpc' = "loop"
    /\ UNCHANGED <<accessorVars, request, producerOf, afterStop,
                   chat_history_config, enabled, base_url, secret,
                   report_queue, unfinished_tasks, stop_event, item, calls,
                   spc, stopReturned, uncaught, accepted, pulled, outcome, ncalls,
                   sawEligible, postStop>>

\* mutant: task_done is called at the end of the try body, not in a
\* finally clause
AfterTaskDone_NotWhenRaised(n, how) == IF how = "raised" THEN n ELSE n - 1

\* lines 41-42: finally: report_queue.task_done(), however the
\* processing ended
AfterTaskDone(n, how) == n - 1

\* lines 41-42 and on: the item is done, whatever happened to it
Finish(how, success, escaped) ==
    /\ outcome' = [outcome EXCEPT ![item.id] = how]
    /\ unfinished_tasks' = AfterTaskDone(unfinished_tasks, how)
    /\ report_queue' = QueueAfterItem(report_queue, item, success)
    /\ item' = NoItem
    /\ wpc' = AfterItem(success, escaped)
    /\ uncaught' = IF escaped THEN uncaught \cup {"worker"} ELSE uncaught

\* line 37: _process_report(*item), up to the moment requests.post is
\* called.  `how` is what happens on the way:
\*   "ok"         nothing is raised
\*   "mint_raise" _generate_jwt_token raises (inside the service's try)
\*   "raise"      an exception leaves _process_report (raised outside the
\*                service's try, or by its handler)
WorkerProcess ==
    /\ wpc = "process"
    /\ afterStop' = IF stop_event THEN afterStop + 1 ELSE afterStop
    /\ \E how \in {"ok", "mint_raise", "raise"} :
         LET req == ProcessReport(item)
             acts == req # <<>> /\ ServiceActs(item.device_id)
         IN IF how = "raise"
            THEN /\ Finish("raised", FALSE, Escapes({"item", "worker"}))
                 /\ UNCHANGED calls
            ELSE IF ~acts
            THEN /\ how = "ok"
                 /\ Finish("no_call", FALSE, FALSE)
                 /\ UNCHANGED calls
            ELSE IF how = "mint_raise"
            THEN /\ Finish("mint_raised", FALSE,
                           Escapes({"report", "item", "worker"}))
                 /\ UNCHANGED calls
            ELSE /\ calls' = Append(calls, req[1])
                 /\ outcome' = [outcome EXCEPT ![item.id] = "in_flight"]
                 /\ wpc' = "http"
                 /\ UNCHANGED <<report_queue, unfinished_tasks, item,
                                uncaught>>
    /\ UNCHANGED <<accessorVars, request, producerOf,
                   chat_history_config, enabled, base_url, secret, stop_event,
                   spc, stopReturned, accepted, pulled, ncalls, sawEligible, postStop>>

\* requests.post returns or raises; the service logs; line 42: task_done
WorkerHttpReturn ==
    /\ wpc = "http"
    /\ \E resp \in Responses :
         LET n == Len(calls)
             raised == resp = TransportError
             success == MakeRequestSync(PostLiteral, resp)
         IN /\ calls' = [calls EXCEPT ![n].resp = resp]
            /\ Finish(IF success THEN "delivered" ELSE "failed", success,
                      raised /\ Escapes({"request", "report", "item",
                                         "worker"}))
    /\ UNCHANGED <<accessorVars, request, producerOf, afterStop,
                   chat_history_config, enabled, base_url, secret, stop_event,
                   spc, stopReturned, accepted, pulled, ncalls, sawEligible, postStop>>

(***************************************************************************)
(* ChatHistoryQueue.stop                                                   *)
(***************************************************************************)
\* mutant: stop() also puts the None item on the queue
StopSet_PutsNone ==
    /\ spc = "idle"
    /\ stop_event' = TRUE
    /\ report_queue' = Append(report_queue, NoItem)
    /\ unfinished_tasks' = unfinished_tasks + 1
    /\ IF wpc # "exited"
       THEN spc' = "join" /\ UNCHANGED stopReturned
       ELSE spc' = "idle" /\ stopReturned' = TRUE
    /\ UNCHANGED <<accessorVars, request, producerOf, afterStop,
                   chat_history_config, enabled, base_url, secret,
                   wpc, item, calls, uncaught,
                   accepted, pulled, outcome, ncalls, sawEligible, postStop>>

\* line 80-81: set the flag; join only a live worker
StopSet ==
    /\ spc = "idle"
    /\ stop_event' = TRUE
    /\ IF wpc # "exited"
       THEN spc' = "join" /\ UNCHANGED stopReturned
       ELSE spc' = "idle" /\ stopReturned' = TRUE
    /\ UNCHANGED <<accessorVars, request, producerOf, afterStop,
                   chat_history_config, enabled, base_url, secret,
                   report_queue, unfinished_tasks, wpc, item, calls, uncaught,
                   accepted, pulled, outcome, ncalls, sawEligible, postStop>>

\* line 82: join(timeout=2) returns: the worker has exited, or the time is up
StopJoinReturn ==
    /\ spc = "join"
    /\ \E timedOut \in BOOLEAN : timedOut \/ wpc = "exited"
    /\ spc' = "idle"
    /\ stopReturned' = TRUE
    /\ UNCHANGED <<accessorVars, request, producerOf, afterStop,
                   chat_history_config, enabled, base_url, secret,
                   report_queue, unfinished_tasks, stop_event, wpc, item,
                   calls, uncaught, accepted, pulled, outcome, ncalls,
                   sawEligible, postStop>>

(***************************************************************************)
(* Specifications                                                          *)
(***************************************************************************)
Next ==
    \/ EnqueueMessage
    \/ EnqueueChatEnd
    \/ WorkerLoop
    \/ WorkerGet
    \/ WorkerGetTimeout
    \/ WorkerProcess
    \/ WorkerHttpReturn
    \/ StopSet
    \/ StopJoinReturn

Spec == Init /\ [][Next]_vars

LiveNext ==
    \/ LiveEnqueueMessage
    \/ EnqueueChatEnd
    \/ WorkerLoop
    \/ WorkerGet
    \/ WorkerGetTimeout
    \/ WorkerProcess
    \/ WorkerHttpReturn
    \/ StopSet
    \/ StopJoinReturn

ProducerNext ==
    \/ ProducerEnqueueMessage
    \/ ProducerEnqueueChatEnd
    \/ WorkerLoop
    \/ WorkerGet
    \/ WorkerGetTimeout
    \/ WorkerProcess
    \/ WorkerHttpReturn
    \/ StopSet
    \/ StopJoinReturn

\* one queue fed by several producer threads
ProducerSpec == Init /\ [][ProducerNext]_vars

\* the worker thread is scheduled fairly and every delivery call returns;
\* producers and stop() may act or not
FairSpec ==
    /\ Init
    /\ [][LiveNext]_vars
    /\ WF_vars(WorkerLoop)
    /\ WF_vars(WorkerGet)
    /\ WF_vars(WorkerGetTimeout)
    /\ WF_vars(WorkerProcess)
    /\ WF_vars(WorkerHttpReturn)

(***************************************************************************)
(* The module-level accessor: get_chat_history_queue, enqueue_chat_message *)
(* and enqueue_chat_end.  Nothing in the module serialises its callers, so *)
(* a call is a sequence of steps (one per source line) that the steps of   *)
(* other threads may come between.                                         *)
(***************************************************************************)
\* ChatHistoryQueue(config): the service's fields, an empty queue and one
\* worker thread started; `posts` counts the delivery calls of that worker
NewInstance(cfg) ==
    LET on == ServiceEnabled(cfg)
    IN [config |-> cfg, enabled |-> on,
        base_url |-> IF on THEN Rstrip(cfg.url) ELSE <<>>,
        secret |-> IF on THEN cfg.secret ELSE <<>>,
        report_queue |-> <<>>, workers |-> 1, posts |-> 0]

\* mutant: an instance is built on first use even without a configuration
NeedsConstruct_WithoutConfig(current, config) == current = 0

\* line 92: _chat_history_queue is None and config is not None
NeedsConstruct(current, config) == current = 0 /\ config # NoConfig

\* the guard of the enqueue methods, on the instance `inst`
InstanceAccepts(inst, device_id) == inst.enabled /\ device_id # ""

\* a call of `op` begins in thread t: the thread is about to run line 92
Call(t, op, config, args) ==
    /\ threads[t].pc = "idle"
    /\ history.nops < MaxOps
    /\ threads' = [threads EXCEPT ![t] =
                     [pc |-> "test", op |-> op, config |-> config,
                      args |-> args, start |-> chat_history_queue,
                      queue |-> 0]]
    /\ history' = [history EXCEPT !.nops = @ + 1,
                                  !.configured = @ \/ config # NoConfig]
    /\ UNCHANGED <<chat_history_queue, instances, queueVars, request>>

\* get_chat_history_queue(config) or get_chat_history_queue()
CallGet(t) ==
    \E config \in AccessorConfigs \cup {NoConfig} : Call(t, "get", config, <<>>)

\* line 97-99: enqueue_chat_message calls get_chat_history_queue()
CallEnqueueChatMessage(t) ==
    \E a \in HelperMessageArgs : Call(t, "enqueue_chat_message", NoConfig, a)

\* line 104-106: enqueue_chat_end calls get_chat_history_queue()
CallEnqueueChatEnd(t) ==
    Call(t, "enqueue_chat_end", NoConfig, <<"d1", "chat_end", "", NoneVal>>)

\* line 92: the test of the global
GetTest(t) ==
    /\ threads[t].pc = "test"
    /\ threads' = [threads EXCEPT ![t].pc =
                     IF NeedsConstruct(chat_history_queue, threads[t].config)
                     THEN "construct" ELSE "return"]
    /\ UNCHANGED <<chat_history_queue, instances, history, queueVars, request>>

\* line 93: the instance is constructed and stored in the global
GetConstruct(t) ==
    /\ threads[t].pc = "construct"
    /\ instances' = Append(instances, NewInstance(threads[t].config))
    /\ chat_history_queue' = Len(instances) + 1
    /\ threads' = [threads EXCEPT ![t].pc = "return"]
    /\ UNCHANGED <<history, queueVars, request>>

\* line 94: return _chat_history_queue, to the caller of the accessor or
\* into the local `queue` of a module-level enqueue function
GetReturn(t) ==
    /\ threads[t].pc = "return"
    /\ IF threads[t].op = "get"
       THEN /\ history' = [history EXCEPT !.returns = @ \cup
                             {[op |-> "get", config |-> threads[t].config,
                               start |-> threads[t].start,
                               value |-> chat_history_queue]}]
            /\ threads' = [threads EXCEPT ![t] = IdleThread]
       ELSE /\ threads' = [threads EXCEPT ![t].pc = "if_queue",
                                          ![t].queue = chat_history_queue]
            /\ UNCHANGED history
    /\ UNCHANGED <<chat_history_queue, instances, queueVars, request>>

\* lines 100-101, 107-108: `if queue:` and the instance's enqueue method
\* (lines 58-76); putFails: report_queue.put raises
HelperEnqueue(t) ==
    /\ threads[t].pc = "if_queue"
    /\ LET q == threads[t].queue
           a == threads[t].args
       IN \E putFails \in BOOLEAN :
            /\ putFails => (q # 0 /\ InstanceAccepts(instances[q], a[1]))
            /\ instances' =
                 IF q # 0 /\ InstanceAccepts(instances[q], a[1]) /\ ~putFails
                 THEN [instances EXCEPT ![q].report_queue = Append(@, a)]
                 ELSE instances
            /\ history' = [history EXCEPT
                 !.returns = @ \cup {[op |-> threads[t].op,
                                      config |-> NoConfig,
                                      start |-> threads[t].start,
                                      value |-> q]},
                 !.raised = @ \/ (putFails /\ Escapes({"put"}))]
    /\ threads' = [threads EXCEPT ![t] = IdleThread]
    /\ UNCHANGED <<chat_history_queue, queueVars, request>>

\* the worker of instance i takes the oldest item of its queue and
\* processes it (lines 31-42): one delivery call if the role has a branch
InstanceWorker(i) ==
    /\ instances[i].workers > 0
    /\ instances[i].report_queue # <<>>
    /\ LET a == Head(instances[i].report_queue)
           it == [id |-> 1, device_id |-> a[1], role |-> a[2], text |-> a[3],
                  image_base64 |-> a[4]]
       IN instances' = [instances EXCEPT
            ![i].report_queue = Tail(@),
            ![i].posts = IF ProcessReport(it) # <<>> THEN @ + 1 ELSE @]
    /\ UNCHANGED <<chat_history_queue, threads, history, queueVars, request>>

AccessorNext ==
    \/ \E t \in Threads : CallGet(t)
    \/ \E t \in Threads : CallEnqueueChatMessage(t)
    \/ \E t \in Threads : CallEnqueueChatEnd(t)
    \/ \E t \in Threads : GetTest(t)
    \/ \E t \in Threads : GetConstruct(t)
    \/ \E t \in Threads : GetReturn(t)
    \/ \E t \in Threads : HelperEnqueue(t)
    \/ \E i \in DOMAIN instances : InstanceWorker(i)

\* the process before any ChatHistoryQueue exists
NoInstance ==
    /\ AccessorInit
    /\ request = NoRequest
    /\ chat_history_config = <<>>
    /\ enabled = FALSE
    /\ base_url = <<>>
    /\ secret = <<>>
    /\ report_queue = <<>>
    /\ unfinished_tasks = 0
    /\ stop_event = FALSE
    /\ wpc = "loop"
    /\ item = NoItem
    /\ calls = <<>>
    /\ spc = "idle"
    /\ stopReturned = FALSE
    /\ uncaught = {}
    /\ accepted = <<>>
    /\ pulled = <<>>
    /\ outcome = <<>>
    /\ ncalls = 0
    /\ sawEligible = FALSE
    /\ postStop = {}
    /\ producerOf = <<>>
    /\ afterStop = 0

\* the module-level functions called from several threads
AccessorSpec == NoInstance /\ [][AccessorNext]_vars

(***************************************************************************)
(* ChatHistoryService._make_request_sync as a function of its arguments,   *)
(* of the service's enabled flag and of what the remote end does           *)
(***************************************************************************)
RequestInit ==
    /\ AccessorInit
    /\ request \in {[pc |-> "call", method |-> m, resp |-> r,
                      posted |-> FALSE, result |-> FALSE, raised |-> FALSE] :
                     m \in Methods, r \in Statuses}
    /\ chat_history_config \in Configs
    /\ enabled = ServiceEnabled(chat_history_config)
    /\ base_url = IF enabled THEN Rstrip(chat_history_config.url) ELSE <<>>
    /\ secret = IF enabled THEN chat_history_config.secret ELSE <<>>
    /\ report_queue = <<>>
    /\ unfinished_tasks = 0
    /\ stop_event = FALSE
    /\ wpc = "loop"
    /\ item = NoItem
    /\ calls = <<>>
    /\ spc = "idle"
    /\ stopReturned = FALSE
    /\ uncaught = {}
    /\ accepted = <<>>
    /\ pulled = <<>>
    /\ outcome = <<>>
    /\ ncalls = 0
    /\ sawEligible = FALSE
    /\ postStop = {}
    /\ producerOf = <<>>
    /\ afterStop = 0

\* lines 32-54: the call runs to its return
RequestReturn ==
    /\ request.pc = "call"
    /\ request' = [request EXCEPT
         !.pc = "done",
         !.posted = PostIssued(request.method),
         !.result = MakeRequestSync(request.method, request.resp),
         !.raised = RequestRaises(request.method, request.resp)]
    /\ UNCHANGED <<queueVars, accessorVars>>

RequestNext == RequestReturn

RequestSpec == RequestInit /\ [][RequestNext]_vars

(***************************************************************************)
(* Vocabulary of the properties                                            *)
(***************************************************************************)
Range(f) == {f[k] : k \in DOMAIN f}

Ids == 1..MaxEnqueue

\* event i is waiting in report_queue
InQueue(i) == \E k \in DOMAIN report_queue : report_queue[k].id = i

\* a delivery call (requests.post) was issued for event i
Called(i) == \E k \in DOMAIN calls : calls[k].id = i

\* the worker has got event i from the queue
Pulled(i) == i \in Range(pulled)

KnownRoles == {"user", "assistant", "chat_end"}

\* event i was processed without a delivery call, and why
NoCallFor(i) ==
    /\ i \in DOMAIN outcome
    /\ \/ outcome[i] \in {"raised", "mint_raised"}
       \/ outcome[i] = "no_call" /\ accepted[i].role \notin KnownRoles

(***************************************************************************)
(* C1: as long as every enqueue_message / enqueue_chat_end call was made   *)
(* with the service disabled (url or secret missing or empty) or with an   *)
(* empty device_id, report_queue is empty and no HTTP call was issued.     *)
(***************************************************************************)
C1_DroppedCallsLeaveNoTrace ==
    ~sawEligible =>
        /\ report_queue = <<>>
        /\ calls = <<>>
        /\ accepted = <<>>
        /\ wpc \in {"loop", "get", "exited"}

\* two calls with an empty device_id were made on an enabled service
C1_Witness ==
    /\ UrlAndSecretGiven
    /\ ncalls = 2
    /\ ~sawEligible

(***************************************************************************)
(* C2 as stated: every event appended while the service is enabled and     *)
(* stop() was not requested is eventually handed to a delivery call        *)
(* (worker scheduled fairly, every call returns).                          *)
(***************************************************************************)
C2_Original ==
    \A i \in Ids : [](~stop_event /\ InQueue(i) => <>Called(i))

(***************************************************************************)
(* C2 amended: every event appended while the service is enabled and       *)
(* stop() was not requested eventually gets its delivery call, or is       *)
(* processed without one (its role is none of user, assistant, chat_end,   *)
(* or an exception was raised before the POST), or is still queued when    *)
(* stop() is requested.                                                    *)
(***************************************************************************)
C2_EventuallyDeliveredUnlessStopped ==
    \A i \in Ids :
        [](~stop_event /\ InQueue(i) =>
              <>(Called(i) \/ NoCallFor(i) \/ (stop_event /\ InQueue(i))))

\* an event that waited behind another one got its delivery call, no stop
C2_Witness ==
    /\ ~stop_event
    /\ Len(calls) = 2
    /\ calls[1].resp = 404
    /\ calls[2].id = 2
    /\ outcome[2] = "delivered"

(***************************************************************************)
(* C3: delivery calls follow the order in which the events were accepted:  *)
(* the worker gets the events in that order without skipping any, a call   *)
(* issued later belongs to an event accepted later, and a call is started  *)
(* only after every earlier call has returned.                             *)
(***************************************************************************)
C3_CallsInFifoOrder ==
    /\ \A k \in DOMAIN pulled : pulled[k] = k
    /\ \A j, k \in DOMAIN calls : j < k =>
          /\ calls[j].id < calls[k].id
          /\ calls[j].resp # InFlight

\* the call of the first event has returned and that of the second is out
C3_Witness ==
    /\ Len(calls) = 2
    /\ calls[1].resp # InFlight
    /\ calls[2].resp = InFlight

(***************************************************************************)
(* C4: no event has more than one delivery call, whatever the call's      *)
(* outcome, and an event the worker has got is never back in the queue.    *)
(***************************************************************************)
C4_AtMostOneCallPerEvent ==
    /\ \A j, k \in DOMAIN calls : j # k => calls[j].id # calls[k].id
    /\ \A i \in Range(pulled) : ~InQueue(i)
    /\ \A i \in DOMAIN accepted : item.id = i => ~InQueue(i)

\* a call failed (status 404 or transport failure), the worker went on
C4_Witness ==
    /\ calls # <<>>
    /\ calls[1].resp \in {404, TransportError}
    /\ outcome[1] = "failed"
    /\ wpc = "get"

(***************************************************************************)
(* C5: every delivery call matches its event: a user event is POSTed to    *)
(* {base_url}/devices/{device_id}/messages with role "user", its text, and *)
(* image_base64 iff it carried a non-empty image; an assistant event to    *)
(* the same endpoint with role "assistant", its text and no image_base64;  *)
(* a chat_end event to {base_url}/devices/{device_id}/chat_end without a   *)
(* body.  No other event has a call.                                       *)
(***************************************************************************)
C5_Endpoint(e, last) ==
    base_url \o <<"/", "devices", "/", e.device_id, "/", last>>

C5_CallMatches(c, e) ==
    /\ c.method = "POST"
    /\ e.role \in KnownRoles
    /\ e.role = "user" =>
          /\ c.url = C5_Endpoint(e, "messages")
          /\ Len(c.json) = 1
          /\ c.json[1].role = "user"
          /\ c.json[1].text = e.text
          /\ ("image_base64" \in DOMAIN c.json[1])
                <=> (e.image_base64 \notin {NoneVal, ""})
          /\ "image_base64" \in DOMAIN c.json[1]
                => c.json[1].image_base64 = e.image_base64
    /\ e.role = "assistant" =>
          /\ c.url = C5_Endpoint(e, "messages")
          /\ c.json = << [role |-> "assistant", text |-> e.text] >>
    /\ e.role = "chat_end" =>
          /\ c.url = C5_Endpoint(e, "chat_end")
          /\ c.json = <<>>

C5_DispatchMatchesKind ==
    /\ \A k \in DOMAIN calls : C5_CallMatches(calls[k], accepted[calls[k].id])
    /\ \A i \in DOMAIN outcome :
          outcome[i] \in {"in_flight", "delivered", "failed"} => Called(i)

\* an assistant event that carried an image and a user event with an image
\* have both been sent
C5_Witness ==
    /\ Len(calls) = 2
    /\ \E k \in DOMAIN calls :
          /\ accepted[calls[k].id].role = "assistant"
          /\ accepted[calls[k].id].image_base64 = "img"
    /\ \E k \in DOMAIN calls :
          /\ accepted[calls[k].id].role = "user"
          /\ accepted[calls[k].id].image_base64 = "img"

(***************************************************************************)
(* C6: an enqueue call never waits for the consumer and never raises:      *)
(* whatever the depth of the queue and the position of the worker, every   *)
(* enqueue_message / enqueue_chat_end call can be completed as one step    *)
(* of its caller, and no exception has propagated to a producer.           *)
(***************************************************************************)
C6_EnqueueNeverBlocks ==
    /\ "producer" \notin uncaught
    /\ ncalls < MaxEnqueue =>
          /\ \A a \in MessageArgs : ENABLED Enqueue(a, FALSE)
          /\ \A d \in ChatEndArgs :
                ENABLED Enqueue(<<d, "chat_end", "", NoneVal>>, FALSE)
          /\ enabled => ENABLED Enqueue(<<"d1", "user", "hi", NoneVal>>, TRUE)

\* an event is queued, the worker is not taking it (it has exited), and a
\* further enqueue call is still to come
C6_Witness ==
    /\ report_queue # <<>>
    /\ wpc = "exited"
    /\ ncalls < MaxEnqueue

(***************************************************************************)
(* C7: a delivery call answered with a non-success status does not end     *)
(* the worker: the step in which such a call returns leaves nothing        *)
(* raised, marks the item done and takes the worker back to the head of    *)
(* its loop; the worker only ever exits with the stop flag set, while the  *)
(* flag is unset it can always take the next queued event, and (worker     *)
(* scheduled fairly, calls returning) every event queued while a call has  *)
(* failed with a status is eventually got by the worker, unless stop() is  *)
(* requested while it is still queued.                                     *)
(***************************************************************************)
C7_SomeStatusFailure ==
    \E k \in DOMAIN calls :
        calls[k].resp \notin {InFlight, 200, 201, TransportError}

C7_StatusReturnStep ==
    /\ wpc = "http"
    /\ wpc' # "http"
    /\ calls'[Len(calls)].resp \notin {200, 201, TransportError}

C7_WorkerGoesOn ==
    /\ wpc = "exited" => stop_event
    /\ "worker" \notin uncaught
    /\ (wpc = "loop" /\ ~stop_event) => ENABLED (WorkerLoop /\ wpc' = "get")
    /\ (wpc = "get" /\ report_queue # <<>>)
          => ENABLED (WorkerGet /\ item' = report_queue[1])

C7_FailedStatusDoesNotStopWorker ==
    /\ []C7_WorkerGoesOn
    /\ \A i \in Ids :
          [](C7_SomeStatusFailure /\ InQueue(i) /\ ~stop_event =>
                <>(Pulled(i) \/ (stop_event /\ InQueue(i))))
    /\ [][C7_StatusReturnStep =>
            /\ wpc' = "loop"
            /\ uncaught' = uncaught
            /\ unfinished_tasks' = unfinished_tasks - 1
            /\ report_queue' = report_queue]_vars

\* the first call got a 404, and the event queued behind it was sent
C7_Witness ==
    /\ Len(calls) = 2
    /\ calls[1].resp = 404
    /\ calls[2].id = 2
    /\ ~stop_event

(***************************************************************************)
(* C8: an exception raised while one event is processed (token minting,    *)
(* the HTTP call, dispatch) ends neither the worker thread nor reaches a   *)
(* producer: the step in which it is raised drops the event, marks it      *)
(* done and takes the worker back to the head of its loop, from where it   *)
(* can take the next queued event; every event queued while some event has *)
(* raised is eventually got by the worker (scheduled fairly), unless       *)
(* stop() is requested while it is still queued.                           *)
(***************************************************************************)
C8_SomeRaised ==
    \/ \E j \in DOMAIN outcome : outcome[j] \in {"raised", "mint_raised"}
    \/ \E k \in DOMAIN calls : calls[k].resp = TransportError

C8_RaisingStep ==
    /\ item.id \in DOMAIN outcome
    /\ \/ outcome'[item.id] \in {"raised", "mint_raised"}
       \/ wpc = "http" /\ wpc' # "http"
             /\ calls'[Len(calls)].resp = TransportError

C8_ExceptionDoesNotStopWorker ==
    /\ [](uncaught = {})
    /\ \A i \in Ids :
          [](C8_SomeRaised /\ InQueue(i) /\ ~stop_event =>
                <>(Pulled(i) \/ (stop_event /\ InQueue(i))))
    /\ [](wpc = "exited" => stop_event)
    /\ []((wpc = "loop" /\ ~stop_event) => ENABLED (WorkerLoop /\ wpc' = "get"))
    /\ []((wpc = "get" /\ report_queue # <<>>)
             => ENABLED (WorkerGet /\ item' = report_queue[1]))
    /\ [][C8_RaisingStep =>
            /\ wpc' = "loop"
            /\ item' = NoItem
            /\ ~InQueue(item.id)'
            /\ unfinished_tasks' = unfinished_tasks - 1]_vars

\* the first event raised (in dispatch or in token minting), the second
\* was processed after it
C8_Witness ==
    /\ Len(outcome) = 2
    /\ outcome[1] \in {"raised", "mint_raised"}
    /\ outcome[2] \in {"in_flight", "delivered", "failed"}
    /\ ~stop_event

(***************************************************************************)
(* C9: a stop() call made when the stop flag is already set leaves the     *)
(* flag set and changes neither the queue nor the calls issued nor the     *)
(* worker (none is started); waiting in join changes none of them either,  *)
(* and stop() can always return, the worker being inside a delivery call   *)
(* or not.                                                                 *)
(***************************************************************************)
C9_StopIsIdempotent ==
    /\ [](spc = "join" => ENABLED StopJoinReturn)
    /\ [][(StopSet /\ stop_event) =>
            /\ stop_event'
            /\ UNCHANGED <<report_queue, unfinished_tasks, calls, wpc, item,
                           pulled, accepted>>]_vars
    /\ [][StopJoinReturn =>
            UNCHANGED <<stop_event, report_queue, unfinished_tasks, calls,
                        wpc, item, pulled, accepted>>]_vars

\* a second stop() is waiting in join while the worker is inside a call
C9_Witness ==
    /\ stopReturned
    /\ spc = "join"
    /\ wpc = "http"

(***************************************************************************)
(* C10: an event enqueued by a call that began after a stop() call had     *)
(* returned is never got from the queue by the worker.                     *)
(***************************************************************************)
C10_PostStopNeverPulled ==
    \A i \in postStop : ~Pulled(i) /\ ~Called(i)

(***************************************************************************)
(* C11: once stop() has set the stop flag the worker exits, whether the    *)
(* queue is empty or not, given that the worker thread is scheduled and    *)
(* every delivery call returns; the None item is never put on the queue,   *)
(* the poll of the flag at the head of the loop is what ends the worker.   *)
(***************************************************************************)
C11_NoSentinelQueued == \A k \in DOMAIN report_queue : report_queue[k] # NoItem

C11_WorkerExitsAfterStop ==
    /\ [](stop_event => <>(wpc = "exited"))
    /\ []C11_NoSentinelQueued

\* the worker has exited after a stop() and left events in the queue
C11_Witness ==
    /\ stop_event
    /\ wpc = "exited"
    /\ report_queue # <<>>
    /\ pulled # <<>>

(***************************************************************************)
(* C12: once get_chat_history_queue has constructed an instance, every     *)
(* later call, with any configuration or none, returns that same instance, *)
(* constructs no ChatHistoryQueue, starts no worker and leaves the         *)
(* instance's enabled flag, base_url and secret as they are.               *)
(***************************************************************************)
\* the fields of an instance that the constructor sets
C12_Service(inst) == <<inst.enabled, inst.base_url, inst.secret, inst.workers>>

\* every finished call that began with an instance in place returned it
C12_LaterCallsReturnIt ==
    \A r \in history.returns :
        (r.op = "get" /\ r.start # 0) => r.value = r.start

\* a step of a call that began with an instance in place
C12_LaterCallStep ==
    \E t \in Threads : /\ threads[t].pc # "idle"
                       /\ threads[t].start # 0
                       /\ threads'[t] # threads[t]

C12_FirstCallWins ==
    /\ []C12_LaterCallsReturnIt
    /\ [][C12_LaterCallStep =>
            /\ Len(instances') = Len(instances)
            /\ \A i \in DOMAIN instances :
                   C12_Service(instances'[i]) = C12_Service(instances[i])]_vars

(***************************************************************************)
(* C13: before any call of get_chat_history_queue that supplies a          *)
(* configuration, get_chat_history_queue() returns None and the            *)
(* module-level enqueue_chat_message and enqueue_chat_end do nothing: no   *)
(* instance exists, so no worker, no queued event and no delivery call,    *)
(* and nothing is raised.                                                  *)
(***************************************************************************)
C13_NothingBeforeConfiguration ==
    ~history.configured =>
        /\ chat_history_queue = 0
        /\ instances = <<>>
        /\ \A r \in history.returns : r.value = 0
        /\ \A t \in Threads : threads[t].queue = 0
        /\ ~history.raised

\* the three functions have been called and have returned with no
\* configuration supplied yet
C13_Witness ==
    /\ ~history.configured
    /\ \A op \in {"get", "enqueue_chat_message", "enqueue_chat_end"} :
          \E r \in history.returns : r.op = op /\ r.value = 0

(***************************************************************************)
(* C14: _make_request_sync returns True exactly when one POST was issued   *)
(* and the remote end answered 200 or 201.  It returns False for every     *)
(* other status, for a transport failure, for a method that is not POST    *)
(* (no network call is made then) and when the service is disabled (no     *)
(* network call either).  It never raises.                                 *)
(***************************************************************************)
\* the method names the POST verb, in any letter case
C14_IsPost(m) ==
    /\ Len(m) = 4
    /\ m[1] \in {"P", "p"}
    /\ m[2] \in {"O", "o"}
    /\ m[3] \in {"S", "s"}
    /\ m[4] \in {"T", "t"}

C14_TrueOnlyForAcceptedPost ==
    request.pc = "done" =>
        /\ request.result = (request.posted /\ request.resp \in {200, 201})
        /\ ~C14_IsPost(request.method) => (~request.posted /\ ~request.result)
        /\ ~enabled => (~request.posted /\ ~request.result)
        /\ request.resp = TransportError => ~request.result
        /\ request.posted = (enabled /\ C14_IsPost(request.method))
        /\ ~request.raised

\* an enabled service was asked for a POST and the remote end answered 201
C14_Witness ==
    /\ request.pc = "done"
    /\ enabled
    /\ request.posted
    /\ request.resp = 201
    /\ request.result

(***************************************************************************)
(* C15: the lifecycle of a queue is Running, then Stopped.  The one worker *)
(* started by the constructor is alive from then on; it leaves its loop    *)
(* only at the loop test and only with the stop flag set, whatever is      *)
(* enqueued and however deliveries end; once it has exited nothing starts  *)
(* a worker for the instance again.                                        *)
(***************************************************************************)
C15_ExitedOnlyAfterStop == wpc = "exited" => (stop_event /\ "worker" \notin uncaught)

C15_RunningThenStopped ==
    /\ []C15_ExitedOnlyAfterStop
    /\ [][(wpc # "exited" /\ wpc' = "exited") =>
            (stop_event /\ wpc = "loop")]_vars
    /\ [][wpc = "exited" => wpc' = "exited"]_vars

\* a delivery failed, the worker exited after stop(), and an event was
\* enqueued after that: the worker is still the exited one
C15_Witness ==
    /\ wpc = "exited"
    /\ stopReturned
    /\ postStop # {}
    /\ \E i \in DOMAIN outcome : outcome[i] = "failed"

(***************************************************************************)
(* C16: every event the worker pulls is marked done (task_done) exactly    *)
(* once, when its processing has ended, whether it succeeded or raised.    *)
(* The task_done calls never outnumber the events pulled, and the queue's  *)
(* unfinished-task count is the number of events still queued plus the one *)
(* being processed: zero when the queue is empty and the worker is idle.   *)
(***************************************************************************)
\* queue.Queue counts unfinished tasks as puts minus task_done calls
C16_TaskDoneCalls == Len(accepted) - unfinished_tasks

\* the events whose processing has ended
C16_Ended ==
    {i \in DOMAIN outcome : outcome[i] \notin {"queued", "pulled", "in_flight"}}

C16_BeingProcessed == IF item # NoItem THEN 1 ELSE 0

C16_DoneOncePerPulledEvent ==
    /\ C16_TaskDoneCalls = Cardinality(C16_Ended)
    /\ C16_TaskDoneCalls <= Len(pulled)
    /\ C16_Ended \subseteq Range(pulled)
    /\ unfinished_tasks = Len(report_queue) + C16_BeingProcessed
    /\ (report_queue = <<>> /\ item = NoItem) => unfinished_tasks = 0

\* one event raised, another was delivered, and both are done
C16_Witness ==
    /\ \E i \in DOMAIN outcome : outcome[i] = "raised"
    /\ \E i \in DOMAIN outcome : outcome[i] = "delivered"
    /\ report_queue = <<>>
    /\ item = NoItem
    /\ unfinished_tasks = 0

(***************************************************************************)
(* C17: with several producer threads enqueueing on one queue, in any      *)
(* interleaving, no accepted event is lost or duplicated (the events       *)
(* pulled together with those still queued are, as a multiset, the events  *)
(* accepted) and the events of one producer are pulled in the order in     *)
(* which that producer enqueued them.                                      *)
(***************************************************************************)
\* how often the accepted event i occurs among the pulled and the queued
C17_Occurrences(i) ==
    Cardinality({k \in DOMAIN pulled : pulled[k] = i})
    + Cardinality({k \in DOMAIN report_queue : report_queue[k].id = i})

C17_NoLossNoDuplicationPerProducerOrder ==
    /\ Len(producerOf) = Len(accepted)
    /\ \A i \in DOMAIN accepted : C17_Occurrences(i) = 1
    /\ Range(pulled) \subseteq DOMAIN accepted
    /\ \A k \in DOMAIN report_queue :
          /\ report_queue[k].id \in DOMAIN accepted
          /\ report_queue[k] = accepted[report_queue[k].id]
    /\ item # NoItem => item = accepted[item.id]
    /\ \A j, k \in DOMAIN pulled :
          (j < k /\ producerOf[pulled[j]] = producerOf[pulled[k]])
              => pulled[j] < pulled[k]

\* two producers have had events accepted and the worker has pulled them
C17_Witness ==
    /\ \E i, j \in DOMAIN producerOf : producerOf[i] # producerOf[j]
    /\ Len(pulled) >= 2
    /\ ~stop_event

(***************************************************************************)
(* C18: the instance is constructed once per process: however the threads  *)
(* that call get_chat_history_queue(config) while no instance exists are   *)
(* interleaved, at most one ChatHistoryQueue is ever constructed, at most  *)
(* one worker thread is ever started, and all callers get the same         *)
(* instance.                                                               *)
(***************************************************************************)
\* the calls with a configuration that began while the global was None
C18_FirstCallers ==
    {r \in history.returns : r.op = "get" /\ r.config # NoConfig /\ r.start = 0}

C18_ConstructedOnce ==
    /\ Len(instances) <= 1
    /\ \A i \in DOMAIN instances : instances[i].workers <= 1
    /\ \A r1, r2 \in C18_FirstCallers : r1.value = r2.value

(***************************************************************************)
(* C19: shutdown discards the backlog.  From the moment stop() sets the    *)
(* flag the worker begins to process at most one more event (the one its   *)
(* get was waiting for, or the one it had just pulled); every other event  *)
(* that is in report_queue then stays there and leads to no delivery call. *)
(***************************************************************************)
\* an event pulled whose processing has not begun yet
C19_Pending == IF wpc = "process" THEN 1 ELSE 0

C19_AtMostOneMore ==
    /\ stop_event => afterStop + C19_Pending <= 1
    /\ \A k \in DOMAIN report_queue : ~Called(report_queue[k].id)

\* every event of the queue is still in it after the step
C19_QueueKept ==
    \A k \in DOMAIN report_queue :
        \E j \in DOMAIN report_queue' : report_queue'[j] = report_queue[k]

C19_BacklogDiscarded ==
    /\ []C19_AtMostOneMore
    /\ [][stop_event =>
            \/ C19_QueueKept
            \/ /\ wpc = "get"
               /\ afterStop = 0
               /\ report_queue' = Tail(report_queue)]_vars
    /\ [][(stop_event /\ Len(calls') # Len(calls)) =>
            (afterStop = 0 /\ Len(calls') = Len(calls) + 1)]_vars

\* the flag was set with the worker waiting in get and two events around:
\* one was processed, the worker exited, the other is still queued
C19_Witness ==
    /\ wpc = "exited"
    /\ afterStop = 1
    /\ report_queue # <<>>
    /\ \E i \in DOMAIN outcome : outcome[i] \in {"delivered", "failed"}

(***************************************************************************)
(* C20: an event accepted by enqueue_message with a role that is none of   *)
(* user, assistant, chat_end is pulled like any other, produces no         *)
(* delivery call, is marked done and leaves the worker running.  An event  *)
(* accepted by enqueue_message with the role "chat_end" goes to            *)
(* report_chat_end: its call is the chat_end POST, which carries neither   *)
(* the text nor the image of the event.                                    *)
(***************************************************************************)
C20_UnknownRole(e) == e.role \notin {"user", "assistant", "chat_end"}

C20_UnknownRoleNeverCalled ==
    /\ \A i \in DOMAIN accepted :
          C20_UnknownRole(accepted[i]) =>
              /\ ~Called(i)
              /\ outcome[i] \in {"queued", "pulled", "no_call", "raised"}
    /\ \A k \in DOMAIN calls :
          accepted[calls[k].id].role = "chat_end" =>
              /\ calls[k].url = base_url \o <<"/", "devices", "/",
                                              accepted[calls[k].id].device_id,
                                              "/", "chat_end">>
              /\ calls[k].json = <<>>

\* the worker ends its work on an event of unknown role
C20_UnknownRoleStep ==
    /\ item # NoItem
    /\ C20_UnknownRole(item)
    /\ item' = NoItem

\* the worker gets from a queue whose head has an unknown role
C20_GetStep ==
    /\ wpc = "get"
    /\ wpc' # "get"
    /\ report_queue # <<>>
    /\ C20_UnknownRole(Head(report_queue))

C20_UnknownRoleSkippedChatEndDispatched ==
    /\ []C20_UnknownRoleNeverCalled
    /\ [][C20_GetStep =>
            (item' = Head(report_queue) /\ wpc' = "process")]_vars
    /\ [][C20_UnknownRoleStep =>
            /\ calls' = calls
            /\ unfinished_tasks' = unfinished_tasks - 1
            /\ wpc' = "loop"
            /\ uncaught' = uncaught]_vars

\* an event of role "system" was skipped and the worker went on to send
\* the chat_end of an event enqueued as a message with text and image
C20_Witness ==
    /\ \E i \in DOMAIN accepted :
          C20_UnknownRole(accepted[i]) /\ outcome[i] = "no_call"
    /\ \E k \in DOMAIN calls :
          /\ accepted[calls[k].id].role = "chat_end"
          /\ accepted[calls[k].id].text = "bye"
          /\ accepted[calls[k].id].image_base64 = "img"
          /\ calls[k].id > 1
    /\ "worker" \notin uncaught

====
